---- MODULE Spec2Model ----
(***************************************************************************)
(* The NFT challenge contract (src/src/lib.rs): its persisted state, the   *)
(* public methods that change it and the claim saga that runs as a chain   *)
(* of promise callbacks.  Every method call is one receipt: it runs to     *)
(* completion alone, and when it panics the runtime discards every write   *)
(* it made and every promise it created.                                   *)
(***************************************************************************)
EXTENDS Integers, Sequences, FiniteSets, TLC

\* ------------------------------------------------------------- bounds
NumAccounts == 2
MaxItems == 2
MaxLimit == 2
MaxClaims == 3
MaxToken == 1
MaxExpiration == 1
\* calls of mint_nft and update_challenge_completion_status that are followed
MaxTxs == 2
\* claims made in the behaviours that follow those calls
AdminClaims == 1

Accounts == 1..NumAccounts
Claims == 1..MaxClaims
Txs == 1..MaxTxs

VARIABLES
    owner_id,                       \* Contract.owner_id
    challenge_nft_ids,              \* Contract.challenge_nft_ids
    burn_challenge_piece_on_claim,  \* Contract.burn_challenge_piece_on_claim
    expiration_date_in_ns,          \* Contract.expiration_date_in_ns
    winner_limit,                   \* Contract.winner_limit
    creator_can_update,             \* Contract.creator_can_update
    winner_count,                   \* Contract.winner_count
    winners,                        \* Contract.winners: account -> win counter
    potential_winners_left,         \* Contract.potential_winners_left
    challenge_completed,            \* Contract.challenge_completed
    now,                            \* env::block_timestamp()
    claims,                         \* one record per initiate_claim call
    txs                             \* one record per followed mint_nft or
                                    \* update_challenge_completion_status call

config == <<owner_id, challenge_nft_ids, burn_challenge_piece_on_claim,
            expiration_date_in_ns, winner_limit, creator_can_update>>
counters == <<winner_count, winners, potential_winners_left>>
vars == <<owner_id, challenge_nft_ids, burn_challenge_piece_on_claim,
          expiration_date_in_ns, winner_limit, creator_can_update,
          winner_count, winners, potential_winners_left,
          challenge_completed, now, claims, txs>>

\* ------------------------------------------------------------ helpers
SeqsUpTo(S, n) == UNION {[1..k -> S] : k \in 0..n}

Indices == 1..Len(challenge_nft_ids)

\* The record of a claim that has not been submitted yet.
NoClaim ==
    [stage |-> "none", who |-> 0, token_ids |-> <<>>, calls |-> <<>>,
     captured |-> <<>>, outcome |-> "none", log |-> <<>>, missing |-> <<>>,
     own |-> "none", appr |-> "none", xfer |-> "none", burn |-> "none"]

\* The record of a followed call that has not been made yet.
NoTx ==
    [method |-> "none", stage |-> "none", who |-> 0, arg |-> 0,
     flag |-> FALSE, outcome |-> "none"]

InFlightStages == {"ownership", "approval", "transfer", "burn"}

InFlight(c) == claims[c].stage \in InFlightStages

\* ------------------------------------------------------- construction
\* The three assertions of Contract::new on the two lists.
NewAccepts(ids, flags) ==
    /\ Len(ids) = Len(flags)
    /\ Len(ids) > 0
    /\ \A i, j \in 1..Len(ids) : i # j => ids[i] # ids[j]

Init ==
    /\ owner_id = 1
    \* the challenge nfts are numbered in the order the caller lists them
    /\ challenge_nft_ids \in {[i \in 1..n |-> i] : n \in 0..MaxItems}
    /\ burn_challenge_piece_on_claim \in SeqsUpTo(BOOLEAN, MaxItems)
    /\ NewAccepts(challenge_nft_ids, burn_challenge_piece_on_claim)
    /\ expiration_date_in_ns \in 1..MaxExpiration
    /\ winner_limit \in 0..MaxLimit
    /\ creator_can_update \in BOOLEAN
    /\ winner_count = 0
    /\ winners = [a \in {} |-> 1]
    /\ potential_winners_left = winner_limit
    /\ challenge_completed = FALSE
    /\ now = 0
    /\ claims = [c \in Claims |-> NoClaim]
    /\ txs = [t \in Txs |-> NoTx]

\* ------------------------------------------------------- view methods
is_account_winner(account_id) == account_id \in DOMAIN winners

is_challenge_expired == now >= expiration_date_in_ns

\* --------------------------------------------------- internal methods
\* decrement_winners that forgets the reservation
decrement_winners_keeps(p) == p

decrement_winners(p) == p - 1

\* increment_winners that leaves the counter alone
increment_winners_keeps(p) == p

\* increment_winners that releases two slots
increment_winners_twice(p) == p + 2

increment_winners(p) == p + 1

\* winner_count += 1; winners.insert(winner_id, 1)
\* a commit that counts the winner twice
commit_count_twice(n) == n + 2

commit_count(n) == n + 1

\* a commit that counts the winner and forgets the insert
commit_winner_forgets(w, winner_id) == w

commit_winner(w, winner_id) ==
    [a \in DOMAIN w \cup {winner_id} |-> 1]

\* an expiration check that never reads the block timestamp
ensure_challenge_not_expired_flag_only == challenge_completed

\* The value ensure_challenge_not_expired leaves in challenge_completed
\* (and returns).
ensure_challenge_not_expired ==
    IF now > expiration_date_in_ns THEN TRUE ELSE challenge_completed

\* ----------------------------------------------------- initiate_claim
R_SLOTS == "Challenge currently at max potential winners"
R_LIMIT == "Challenge is not accepting any more winners"
R_OVER == "Challenge is over"
R_EXPIRED == "Challenge is expired"
R_WON == "You have already won this challenge"
RejectReasons == {R_SLOTS, R_LIMIT, R_OVER, R_EXPIRED, R_WON}

\* The panics that end a callback of the saga.
A_PARSE == "panic: token id is not a u64"
A_INDEX == "panic: index out of bounds"

\* initiate_claim without the already-won check
initiate_claim_check_no_winner(caller) ==
    IF potential_winners_left = 0 THEN R_SLOTS
    ELSE IF winner_count >= winner_limit THEN R_LIMIT
    ELSE IF challenge_completed THEN R_OVER
    ELSE IF ensure_challenge_not_expired THEN R_EXPIRED
    ELSE "ok"

\* initiate_claim without the challenge_completed check
initiate_claim_check_no_completed(caller) ==
    IF potential_winners_left = 0 THEN R_SLOTS
    ELSE IF winner_count >= winner_limit THEN R_LIMIT
    ELSE IF ensure_challenge_not_expired THEN R_EXPIRED
    ELSE IF is_account_winner(caller) THEN R_WON
    ELSE "ok"

\* initiate_claim with its first two checks in the other order
initiate_claim_check_limit_first(caller) ==
    IF winner_count >= winner_limit THEN R_LIMIT
    ELSE IF potential_winners_left = 0 THEN R_SLOTS
    ELSE IF challenge_completed THEN R_OVER
    ELSE IF ensure_challenge_not_expired THEN R_EXPIRED
    ELSE IF is_account_winner(caller) THEN R_WON
    ELSE "ok"

\* initiate_claim without the checks of challenge_completed and of the
\* expiration
initiate_claim_check_no_status(caller) ==
    IF potential_winners_left = 0 THEN R_SLOTS
    ELSE IF winner_count >= winner_limit THEN R_LIMIT
    ELSE IF is_account_winner(caller) THEN R_WON
    ELSE "ok"

\* initiate_claim that asks first whether the caller has won
initiate_claim_check_winner_first(caller) ==
    IF is_account_winner(caller) THEN R_WON
    ELSE IF potential_winners_left = 0 THEN R_SLOTS
    ELSE IF winner_count >= winner_limit THEN R_LIMIT
    ELSE IF challenge_completed THEN R_OVER
    ELSE IF ensure_challenge_not_expired THEN R_EXPIRED
    ELSE "ok"

\* initiate_claim without the check of potential_winners_left
initiate_claim_check_no_slots(caller) ==
    IF winner_count >= winner_limit THEN R_LIMIT
    ELSE IF challenge_completed THEN R_OVER
    ELSE IF ensure_challenge_not_expired THEN R_EXPIRED
    ELSE IF is_account_winner(caller) THEN R_WON
    ELSE "ok"

\* The panic initiate_claim ends with for this caller, or "ok".
initiate_claim_check(caller) ==
    IF potential_winners_left = 0 THEN R_SLOTS
    ELSE IF winner_count >= winner_limit THEN R_LIMIT
    ELSE IF challenge_completed THEN R_OVER
    ELSE IF ensure_challenge_not_expired THEN R_EXPIRED
    ELSE IF is_account_winner(caller) THEN R_WON
    ELSE "ok"

\* One nft_tokens_for_owner call per challenge nft, in list order.
ownership_calls(caller) ==
    [i \in Indices |->
        [method |-> "nft_tokens_for_owner",
         registry |-> challenge_nft_ids[i], arg |-> caller]]

FreeSlots == {c \in Claims : claims[c].stage = "none"}

NextSlot == CHOOSE c \in FreeSlots : \A d \in FreeSlots : c <= d

initiate_claim(caller) ==
    /\ FreeSlots # {}
    /\ LET c == NextSlot
           reason == initiate_claim_check(caller)
       IN IF reason # "ok"
          THEN \* panic: nothing is written, not even the completion flag
               \* the expiration check has just set
               /\ claims' = [claims EXCEPT ![c] =
                     [NoClaim EXCEPT !.stage = "done", !.who = caller,
                                     !.outcome = reason]]
               /\ UNCHANGED <<counters, challenge_completed>>
          ELSE /\ potential_winners_left' =
                     decrement_winners(potential_winners_left)
               /\ claims' = [claims EXCEPT ![c] =
                     [NoClaim EXCEPT !.stage = "ownership", !.who = caller,
                                     !.calls = ownership_calls(caller)]]
               /\ UNCHANGED <<winner_count, winners, challenge_completed>>
    /\ UNCHANGED <<config, txs, now>>

\* ----------------------------------------------------------- on_claim
\* What one nft_tokens_for_owner promise can hand to the callback: a failed
\* call, bytes that are no list of tokens, an empty list, a list whose
\* first token id is the decimal number `token`, or a list whose first
\* token id is no u64.
\* Token ids are per registry: registry r holds the ids of TokensOf(r).
TokensOf(r) == {r * MaxToken - k : k \in 0..(MaxToken - 1)}

OwnershipResults(i) ==
    {[kind |-> k, token |-> 0] :
        k \in {"Failed", "Undeserializable", "Empty", "NonNumeric"}}
    \cup {[kind |-> "Tokens", token |-> t] : t \in TokensOf(challenge_nft_ids[i])}

OwnershipRounds ==
    {r \in [Indices -> UNION {OwnershipResults(i) : i \in Indices}] :
        \A i \in Indices : r[i] \in OwnershipResults(i)}

\* The registry answered that the account holds at least one token.
Holds(result) == result.kind \in {"Tokens", "NonNumeric"}

\* res[index]: the promise succeeded with a non-empty token list.
owns(result) == result.kind \in {"Tokens", "NonNumeric"}

\* message[0].token_id.parse().unwrap() runs for every owned index whose
\* burn flag is set, whatever the other indices returned.
parse_panics(results) ==
    \E i \in Indices :
        /\ results[i].kind = "NonNumeric"
        /\ burn_challenge_piece_on_claim[i]

\* token_ids_to_burn after the first k indices: one entry per owned index
\* whose burn flag is set, in index order.
RECURSIVE token_ids_to_burn(_, _)
token_ids_to_burn(results, k) ==
    IF k = 0 THEN <<>>
    ELSE LET rest == token_ids_to_burn(results, k - 1)
         IN IF owns(results[k]) /\ burn_challenge_piece_on_claim[k]
            THEN Append(rest, results[k].token)
            ELSE rest

\* message[0].token_id of every index, as the registries returned them.
first_tokens(results) == [i \in Indices |-> results[i].token]

\* a loop over res that never finds a false entry
first_not_owned_ignored(results) == 0

\* The first index the loop over res finds false (logged), 0 when none.
first_not_owned(results) ==
    IF \A i \in Indices : owns(results[i]) THEN 0
    ELSE CHOOSE i \in Indices :
            /\ ~owns(results[i])
            /\ \A j \in Indices : j < i => owns(results[j])

\* The indices, counted from 0 as the code counts them, the log of on_claim
\* names: the one the loop over res stops at, none when it stops nowhere.
not_owned_log(results) ==
    IF first_not_owned(results) = 0 THEN <<>>
    ELSE <<first_not_owned(results) - 1>>

\* The lowest index, counted from 0, whose registry did not answer with a
\* token of the account; none when every registry did.
lowest_not_held(results) ==
    IF \A i \in Indices : Holds(results[i]) THEN <<>>
    ELSE <<(CHOOSE i \in Indices :
              /\ ~Holds(results[i])
              /\ \A j \in Indices : j < i => Holds(results[j])) - 1>>

\* have_approvals_for_transfers, on_approval_check and burn_nfts all loop
\* over 0..burn_challenge_piece_on_claim.len() and read token_ids[i]: the
\* read is out of range as soon as token_ids is the shorter list.
index_panics(token_ids) ==
    Len(token_ids) < Len(burn_challenge_piece_on_claim)

\* a fan-out that pairs registry i with the token of the mirrored index
fan_out_mirrored(method, token_ids) ==
    [i \in 1..Len(burn_challenge_piece_on_claim) |->
        [method |-> method, registry |-> challenge_nft_ids[i],
         arg |-> token_ids[Len(token_ids) + 1 - i]]]

\* The fan-out of one round: call i goes to challenge nft i with token_ids[i].
fan_out(method, token_ids) ==
    [i \in 1..Len(burn_challenge_piece_on_claim) |->
        [method |-> method, registry |-> challenge_nft_ids[i],
         arg |-> token_ids[i]]]

RoundResult(ok) == IF ok THEN "ok" ELSE "fail"

\* The saga of claim c ends here: its context is dropped.
Ended(c, outcome) ==
    [claims[c] EXCEPT !.stage = "done", !.outcome = outcome,
                      !.token_ids = <<>>, !.calls = <<>>,
                      !.captured = <<>>]

on_claim_results(c, results) ==
    /\ claims[c].stage = "ownership"
    /\ LET token_ids == token_ids_to_burn(results, Len(challenge_nft_ids))
           all_owned == first_not_owned(results) = 0
           own == RoundResult(\A i \in Indices : Holds(results[i]))
           missing == lowest_not_held(results)
       IN IF parse_panics(results)
          THEN \* the callback's receipt fails: nothing is written
               /\ claims' = [claims EXCEPT ![c] =
                     [Ended(c, A_PARSE) EXCEPT !.own = own,
                                               !.missing = missing]]
               /\ UNCHANGED <<counters>>
          ELSE IF ~all_owned
          THEN /\ potential_winners_left' =
                     increment_winners(potential_winners_left)
               /\ claims' = [claims EXCEPT ![c] =
                     [Ended(c, "not_owned") EXCEPT
                        !.own = own, !.missing = missing,
                        !.log = not_owned_log(results)]]
               /\ UNCHANGED <<winner_count, winners>>
          ELSE IF Len(token_ids) = 0
          THEN /\ winner_count' = commit_count(winner_count)
               /\ winners' = commit_winner(winners, claims[c].who)
               /\ claims' = [claims EXCEPT ![c] =
                     [Ended(c, "committed") EXCEPT !.own = own]]
               /\ UNCHANGED potential_winners_left
          ELSE IF index_panics(token_ids)
          THEN \* have_approvals_for_transfers panics inside this receipt
               /\ claims' = [claims EXCEPT ![c] =
                     [Ended(c, A_INDEX) EXCEPT !.own = own]]
               /\ UNCHANGED <<counters>>
          ELSE /\ claims' = [claims EXCEPT ![c] =
                     [@ EXCEPT !.stage = "approval", !.own = own,
                               !.token_ids = token_ids,
                               !.captured = first_tokens(results),
                               !.calls = fan_out("nft_approval_id", token_ids)]]
               /\ UNCHANGED <<counters>>
    /\ UNCHANGED <<config, txs, challenge_completed, now>>

\* -------------------------------------------------- on_approval_check
\* One nft_approval_id promise: failed, bytes that are no u64 (null when
\* there is no approval), or an approval id.
ApprovalResults == {"Failed", "Undeserializable", "ApprovalId"}

\* an approval check that takes every successful promise for an approval
approved_any_success(result) == result # "Failed"

approved(result) == result = "ApprovalId"

on_approval_check_results(c, results) ==
    /\ claims[c].stage = "approval"
    /\ LET token_ids == claims[c].token_ids
           all_approved == \A i \in 1..Len(token_ids) : approved(results[i])
           appr == RoundResult(\A i \in DOMAIN results : results[i] = "ApprovalId")
       IN IF ~all_approved
          THEN /\ potential_winners_left' =
                     increment_winners(potential_winners_left)
               /\ claims' = [claims EXCEPT ![c] =
                     [Ended(c, "approval_failed") EXCEPT !.appr = appr]]
          ELSE IF index_panics(token_ids)
          THEN /\ claims' = [claims EXCEPT ![c] =
                     [Ended(c, A_INDEX) EXCEPT !.appr = appr]]
               /\ UNCHANGED potential_winners_left
          ELSE /\ claims' = [claims EXCEPT ![c] =
                     [@ EXCEPT !.stage = "transfer", !.appr = appr,
                               !.calls = fan_out("nft_transfer", token_ids)]]
               /\ UNCHANGED potential_winners_left
    /\ UNCHANGED <<config, txs, winner_count, winners, challenge_completed, now>>

\* ---------------------------------------------------------- burn_nfts
CallResults == {"Failed", "Successful"}

\* The callback of the transfers: it never reads their results.
burn_nfts_results(c, results) ==
    /\ claims[c].stage = "transfer"
    /\ LET token_ids == claims[c].token_ids
           xfer == RoundResult(\A i \in DOMAIN results : results[i] = "Successful")
       IN IF index_panics(token_ids)
          THEN claims' = [claims EXCEPT ![c] =
                  [Ended(c, A_INDEX) EXCEPT !.xfer = xfer]]
          ELSE claims' = [claims EXCEPT ![c] =
                  [@ EXCEPT !.stage = "burn", !.xfer = xfer,
                            !.calls = fan_out("nft_batch_burn", token_ids)]]
    /\ UNCHANGED <<config, txs, counters, challenge_completed, now>>

\* ------------------------------------------------------- on_burn_nfts
\* a fan-in that never looks at the burn results
all_burned_unchecked(results) == TRUE

all_burned(results) == \A i \in DOMAIN results : results[i] = "Successful"

on_burn_nfts_results(c, results) ==
    /\ claims[c].stage = "burn"
    /\ LET burn == RoundResult(\A i \in DOMAIN results : results[i] = "Successful")
       IN
       IF ~all_burned(results)
       THEN /\ potential_winners_left' =
                  increment_winners(potential_winners_left)
            /\ claims' = [claims EXCEPT ![c] =
                  [Ended(c, "burn_failed") EXCEPT !.burn = burn]]
            /\ UNCHANGED <<winner_count, winners>>
       ELSE /\ winner_count' = commit_count(winner_count)
            /\ winners' = commit_winner(winners, claims[c].who)
            /\ claims' = [claims EXCEPT ![c] =
                  [Ended(c, "committed") EXCEPT !.burn = burn]]
            /\ UNCHANGED potential_winners_left
    /\ UNCHANGED <<config, txs, challenge_completed, now>>

\* ------------------------------------ completion flag, time, the rest
\* update_challenge_completion_status without its two guards
update_challenge_completion_status_unguarded(caller, is_complete) ==
    /\ challenge_completed' = is_complete
    /\ UNCHANGED <<config, counters, now, claims>>

P_OWNER == "This method can only be called by the challenge owner"
P_UPDATE == "The creator cannot update the completion status of this challenge"

\* an update that never asserts the challenge owner
update_check_no_owner(caller) ==
    IF ~creator_can_update THEN P_UPDATE ELSE "ok"

\* The panic update_challenge_completion_status ends with for this caller,
\* or "ok".
update_check(caller) ==
    IF owner_id # caller THEN P_OWNER
    ELSE IF ~creator_can_update THEN P_UPDATE
    ELSE "ok"

update_challenge_completion_status(caller, is_complete) ==
    /\ IF update_check(caller) = "ok"
       THEN challenge_completed' = is_complete
       ELSE UNCHANGED challenge_completed   \* panic
    /\ UNCHANGED <<config, counters, now, claims>>

\* ensure_challenge_not_expired is itself a public method.
call_ensure_challenge_not_expired ==
    /\ challenge_completed' = ensure_challenge_not_expired
    /\ UNCHANGED <<config, txs, counters, now, claims>>

\* Blocks pass; the timestamp is followed until it has passed the expiration.
Tick ==
    /\ now <= expiration_date_in_ns
    /\ now' = now + 1
    /\ UNCHANGED <<config, txs, counters, challenge_completed, claims>>

\* The callbacks run when every promise of the round has a result.
on_claim(c) ==
    /\ claims[c].stage = "ownership"
    /\ \E results \in OwnershipRounds : on_claim_results(c, results)

on_approval_check(c) ==
    /\ claims[c].stage = "approval"
    /\ \E results \in [1..Len(claims[c].token_ids) -> ApprovalResults] :
          on_approval_check_results(c, results)

burn_nfts(c) ==
    /\ claims[c].stage = "transfer"
    /\ \E results \in [Indices -> CallResults] : burn_nfts_results(c, results)

on_burn_nfts(c) ==
    /\ claims[c].stage = "burn"
    /\ \E results \in [Indices -> CallResults] : on_burn_nfts_results(c, results)

Next ==
    \/ \E a \in Accounts : initiate_claim(a)
    \/ \E c \in Claims : on_claim(c)
    \/ \E c \in Claims : on_approval_check(c)
    \/ \E c \in Claims : burn_nfts(c)
    \/ \E c \in Claims : on_burn_nfts(c)
    \/ \E a \in Accounts, b \in BOOLEAN :
          update_challenge_completion_status(a, b) /\ UNCHANGED txs
    \/ call_ensure_challenge_not_expired
    \/ Tick

Spec == Init /\ [][Next]_vars

\* ------------------------------------------------------------ mint_nft
\* The fee floor of mint_nft, in millinear.
MintFee == 54

\* The attached deposit in millinear (as_millinear rounds down): just below
\* the floor, or the floor.
Deposits == {MintFee - 1, MintFee}

P_MINT_WINNER == "You must win the challenge to mint the NFT"
P_MINT_FEE == "To cover minting fees, you need to attach at least 54 millinear to this transaction."
P_MINT_ERROR == "There was an error minting the NFT"

\* a mint_nft that never asks whether the caller has won
mint_check_no_winner(caller, deposit) ==
    IF deposit < MintFee THEN P_MINT_FEE ELSE "ok"

\* The panic mint_nft ends with for this caller and deposit, or "ok".
mint_check(caller, deposit) ==
    IF ~is_account_winner(caller) THEN P_MINT_WINNER
    ELSE IF deposit < MintFee THEN P_MINT_FEE
    ELSE "ok"

FreeTxs == {t \in Txs : txs[t].stage = "none"}

NextTx == CHOOSE t \in FreeTxs : \A u \in FreeTxs : t <= u

\* mint_nft writes no field: it panics, or issues nft_batch_mint with
\* mint_nft_callback behind it.
mint_nft(caller, deposit) ==
    /\ FreeTxs # {}
    /\ LET reason == mint_check(caller, deposit)
       IN txs' = [txs EXCEPT ![NextTx] =
               [NoTx EXCEPT !.method = "mint_nft",
                            !.stage = IF reason = "ok" THEN "minting" ELSE "done",
                            !.who = caller, !.arg = deposit,
                            !.outcome = reason]]
    /\ UNCHANGED <<config, counters, challenge_completed, now, claims>>

\* mint_nft_callback takes &self: it panics on a failed mint and writes
\* nothing either way.
mint_nft_callback(t) ==
    /\ txs[t].stage = "minting"
    /\ \E call_result \in CallResults :
          txs' = [txs EXCEPT ![t] =
              [@ EXCEPT !.stage = "done",
                        !.outcome = IF call_result = "Failed"
                                    THEN P_MINT_ERROR ELSE "minted"]]
    /\ UNCHANGED <<config, counters, challenge_completed, now, claims>>

\* A call of update_challenge_completion_status with its caller, argument
\* and end on record.
followed_update(caller, is_complete) ==
    /\ FreeTxs # {}
    /\ update_challenge_completion_status(caller, is_complete)
    /\ txs' = [txs EXCEPT ![NextTx] =
            [NoTx EXCEPT !.method = "update_challenge_completion_status",
                         !.stage = "done", !.who = caller,
                         !.flag = is_complete,
                         !.outcome = update_check(caller)]]

\* The contract with its minting and owner calls on record, next to the
\* claims of AdminClaims callers.
AdminNext ==
    \/ \E a \in Accounts :
          FreeSlots # {} /\ NextSlot <= AdminClaims /\ initiate_claim(a)
    \/ \E c \in Claims : on_claim(c)
    \/ \E c \in Claims : on_approval_check(c)
    \/ \E c \in Claims : burn_nfts(c)
    \/ \E c \in Claims : on_burn_nfts(c)
    \/ \E a \in Accounts, d \in Deposits : mint_nft(a, d)
    \/ \E t \in Txs : mint_nft_callback(t)
    \/ \E a \in Accounts, b \in BOOLEAN : followed_update(a, b)
    \/ call_ensure_challenge_not_expired
    \/ Tick

AdminSpec == Init /\ [][AdminNext]_vars

TypeOK ==
    /\ winner_count \in Nat
    /\ potential_winners_left \in Nat
    /\ DOMAIN winners \subseteq Accounts
    /\ now \in 0..(MaxExpiration + 1)

\* ------------------------------------------------------------- claims
Quiescent == \A c \in Claims : ~InFlight(c)

Committed(c) == claims[c].outcome = "committed"

AnyBurn == \E i \in Indices : burn_challenge_piece_on_claim[i]

\* The step is the initiate_claim call recorded as claim c.
Submitted(c) == claims[c].stage = "none" /\ claims'[c].stage # "none"

\* The step is the on_claim callback of claim c.
OwnershipFanIn(c) ==
    claims[c].stage = "ownership" /\ claims'[c].stage # "ownership"

\* The step ends the saga of claim c.
SagaEnds(c) == InFlight(c) /\ claims'[c].stage = "done"

\* No external call of claim c got a failure as its answer, and every
\* token id it was shown is a number.
Qualified(c) ==
    /\ claims[c].outcome # A_PARSE
    /\ claims[c].own # "fail"
    /\ claims[c].appr # "fail"
    /\ claims[c].xfer # "fail"
    /\ claims[c].burn # "fail"

\* Every token id the registries have returned so far is a number.
NumericTokenIds == \A c \in Claims : claims[c].outcome # A_PARSE

\* C1: in every reachable state with no claim in flight (and, to leave
\* malformed token ids aside, only numeric ones returned),
\* winner_count + potential_winners_left = winner_limit,
\* potential_winners_left >= 0 and 0 <= winner_count <= winner_limit.
C1_AtRest ==
    (Quiescent /\ NumericTokenIds) =>
        /\ winner_count + potential_winners_left = winner_limit
        /\ potential_winners_left >= 0
        /\ 0 <= winner_count
        /\ winner_count <= winner_limit

\* C2: in every reachable state winner_count plus the number of claims in
\* flight (each holds a reservation) is at most winner_limit, and so
\* winner_count <= winner_limit.
C2_NoOversubscription ==
    /\ winner_count + Cardinality({c \in Claims : InFlight(c)}) <= winner_limit
    /\ winner_count <= winner_limit

\* Two claimants have claims in flight at once and the pool is used up.
C2_Witness ==
    \E c, d \in Claims :
        /\ InFlight(c) /\ InFlight(d)
        /\ claims[c].who # claims[d].who
        /\ winner_count + Cardinality({e \in Claims : InFlight(e)}) = winner_limit

\* C3: with winner_limit = 1, when two distinct claimants whose every
\* external call succeeded have both had their claim resolved (and nobody
\* else has claimed, and the challenge was open), exactly one of the two
\* claims succeeded, winner_count = 1, potential_winners_left = 0 and the
\* winners are exactly the successful claimant.
C3_ExactlyOneWinner ==
    \A c, d \in Claims :
        ( /\ winner_limit = 1
          /\ c < d
          /\ claims[c].stage = "done" /\ claims[d].stage = "done"
          /\ \A e \in Claims \ {c, d} : claims[e].stage = "none"
          /\ claims[c].who # claims[d].who
          /\ Qualified(c) /\ Qualified(d)
          /\ {claims[c].outcome, claims[d].outcome} \cap {R_OVER, R_EXPIRED} = {} )
        => /\ Committed(c) # Committed(d)
           /\ winner_count = 1
           /\ potential_winners_left = 0
           /\ DOMAIN winners =
                 {claims[e].who : e \in {e \in {c, d} : Committed(e)}}

\* C4: a step that ends a claim's saga without committing it (a failure
\* after the reservation; malformed token ids are left aside) increments
\* potential_winners_left by exactly 1, and an initiate_claim that is
\* rejected leaves it alone.
C4_ReleaseOnce ==
    [][\A c \in Claims :
        /\ (SagaEnds(c) /\ claims'[c].outcome \notin {"committed", A_PARSE})
              => potential_winners_left' = potential_winners_left + 1
        /\ (Submitted(c) /\ claims'[c].stage = "done")
              => potential_winners_left' = potential_winners_left]_vars

\* C5: every committed claim had every ownership lookup answered with a
\* non-empty list and, when some item is flagged burn-on-claim, every
\* approval lookup answered with an id and every burn answered with
\* success; the winners are the claimants of committed claims and
\* winner_count counts them.
C5_CommitAfterAllStages ==
    /\ \A c \in Claims :
          Committed(c) =>
             /\ claims[c].own = "ok"
             /\ AnyBurn => (claims[c].appr = "ok" /\ claims[c].burn = "ok")
    /\ \A a \in DOMAIN winners :
          \E c \in Claims : Committed(c) /\ claims[c].who = a
    /\ winner_count = Cardinality({c \in Claims : Committed(c)})

\* A claim has been committed at the end of the burn round.
C5_Witness ==
    \E c \in Claims :
        /\ Committed(c) /\ claims[c].burn = "ok"
        /\ is_account_winner(claims[c].who)

\* C6: an on_claim step in which some index is not owned ends the claim
\* without committing it: potential_winners_left goes up by 1 (undoing the
\* reservation), winner_count and winners stay, and no call is issued.
C6_NotOwnedReleases ==
    [][\A c \in Claims :
        (OwnershipFanIn(c) /\ claims'[c].own = "fail")
        => /\ claims'[c].stage = "done"
           /\ claims'[c].outcome # "committed"
           /\ claims'[c].calls = <<>>
           /\ potential_winners_left' = potential_winners_left + 1
           /\ UNCHANGED <<winner_count, winners>>]_vars

\* C7: with no burn flag set, an on_claim step in which every index is
\* owned commits the claim: winner_count goes up by exactly 1, the claimant
\* is a winner afterwards, potential_winners_left keeps its decremented
\* value and no call is issued.
C7_NoBurnCommits ==
    [][\A c \in Claims :
        (OwnershipFanIn(c) /\ claims'[c].own = "ok" /\ ~AnyBurn)
        => /\ claims'[c].stage = "done"
           /\ claims'[c].outcome = "committed"
           /\ claims'[c].calls = <<>>
           /\ winner_count' = winner_count + 1
           /\ claims[c].who \in DOMAIN winners'
           /\ potential_winners_left' = potential_winners_left]_vars

\* A claim was committed at the ownership fan-in and its slot stays used.
C7_Witness ==
    \E c \in Claims :
        /\ ~AnyBurn /\ Committed(c)
        /\ is_account_winner(claims[c].who)
        /\ winner_count = 1
        /\ potential_winners_left = winner_limit - 1

\* C8: an initiate_claim by an account that is already a winner is
\* rejected at the preconditions and leaves winner_count,
\* potential_winners_left and winners unchanged.
C8_WinnerRejected ==
    [][\A c \in Claims :
        (Submitted(c) /\ is_account_winner(claims'[c].who))
        => /\ claims'[c].stage = "done"
           /\ claims'[c].outcome \in RejectReasons
           /\ UNCHANGED counters]_vars

\* A winner claimed again, with a slot still free, and was turned away.
C8_Witness ==
    \E c \in Claims :
        /\ claims[c].outcome = R_WON
        /\ is_account_winner(claims[c].who)
        /\ potential_winners_left > 0

\* C9 as stated: while the challenge is completed by the owner's toggle
\* (it has not expired), every initiate_claim is rejected with the reason
\* "Challenge is over" and changes no counter.
C9_AlwaysChallengeIsOver ==
    [][\A c \in Claims :
        ( /\ Submitted(c)
          /\ challenge_completed
          /\ now <= expiration_date_in_ns
          /\ winner_limit > 0 )
        => /\ claims'[c].stage = "done"
           /\ claims'[c].outcome = R_OVER
           /\ UNCHANGED counters]_vars

\* C9 amended: while the challenge is completed, every initiate_claim is
\* rejected at the preconditions and changes no counter; the reason is
\* "Challenge is over" when a slot is left and the limit is not reached,
\* and otherwise the reason of the earlier of those two checks.
C9_RejectedWhileCompleted ==
    [][\A c \in Claims :
        (Submitted(c) /\ challenge_completed)
        => /\ claims'[c].stage = "done"
           /\ claims'[c].outcome \in {R_SLOTS, R_LIMIT, R_OVER}
           /\ (potential_winners_left > 0 /\ winner_count < winner_limit)
                 => claims'[c].outcome = R_OVER
           /\ UNCHANGED counters]_vars

\* After the owner's toggle a claim by an account that never claimed was
\* rejected as "Challenge is over".
C9_Witness ==
    \E c \in Claims :
        /\ claims[c].outcome = R_OVER
        /\ challenge_completed
        /\ now <= expiration_date_in_ns
        /\ \A d \in Claims \ {c} : claims[d].who # claims[c].who

\* The step is a new claim by an account that lost the race for the only
\* slot (its earlier claim met an exhausted pool), after the other
\* claimant was committed.
LoserResubmits(c) ==
    /\ Submitted(c)
    /\ winner_limit = 1
    /\ winner_count = 1
    /\ ~is_account_winner(claims'[c].who)
    /\ \E d \in Claims :
          claims[d].who = claims'[c].who /\ claims[d].outcome = R_SLOTS

\* C10 as stated: the loser's resubmission fails with "Challenge is not
\* accepting any more winners".
C10_LoserToldLimitReached ==
    [][\A c \in Claims :
        LoserResubmits(c) => claims'[c].outcome = R_LIMIT]_vars

\* C10 amended: the loser's resubmission fails with "Challenge currently
\* at max potential winners".
C10_LoserToldSlotsExhausted ==
    [][\A c \in Claims :
        LoserResubmits(c) =>
            /\ claims'[c].stage = "done"
            /\ claims'[c].outcome = R_SLOTS]_vars

\* The winner is committed and the loser has claimed twice.
C10_Witness ==
    \E c, d, e \in Claims :
        /\ winner_limit = 1 /\ winner_count = 1
        /\ Committed(c)
        /\ d < e
        /\ claims[d].who = claims[e].who /\ claims[d].who # claims[c].who
        /\ claims[d].outcome = R_SLOTS /\ claims[e].outcome = R_SLOTS
        /\ c < e

\* The step is a fan-in callback of claim c that got a failure as an answer.
RoundFailed(c) ==
    /\ InFlight(c)
    /\ claims'[c] # claims[c]
    /\ \/ claims[c].stage = "ownership" /\ claims'[c].own = "fail"
       \/ claims[c].stage = "approval" /\ claims'[c].appr = "fail"
       \/ claims[c].stage = "burn" /\ claims'[c].burn = "fail"

\* C11: an initiate_claim call rejected by one of its five checks reserves
\* no slot and leaves winner_count, potential_winners_left and winners as
\* they were; a claim rejected at a later stage (an ownership, approval or
\* burn answer failed) leaves winner_count and winners as they were.
C11_RejectedClaimsCommitNothing ==
    [][\A c \in Claims :
        /\ (Submitted(c) /\ claims'[c].outcome \in RejectReasons)
              => (~InFlight(c)' /\ UNCHANGED counters)
        /\ RoundFailed(c) => UNCHANGED <<winner_count, winners>>]_vars

\* One claim was rejected by a check of initiate_claim, another one at the
\* ownership stage and a third one at the burn stage.
C11_Witness ==
    \E c, d, e \in Claims :
        /\ claims[c].outcome \in RejectReasons
        /\ claims[d].own = "fail"
        /\ claims[e].burn = "fail"

\* C12: an initiate_claim call rejected with "Challenge is expired" leaves
\* challenge_completed true.
C12_ExpiredRejectionCompletes ==
    [][\A c \in Claims :
        (Submitted(c) /\ claims'[c].outcome = R_EXPIRED)
            => challenge_completed']_vars

\* C13: when an approval answer is failed or is no approval id,
\* on_approval_check ends the claim: the slot is released once, no transfer
\* and no burn call is issued, winner_count and winners stay as they were.
C13_ApprovalFailureReleases ==
    [][\A c \in Claims :
        (claims[c].stage = "approval" /\ claims'[c].appr = "fail")
            => /\ claims'[c].stage = "done"
               /\ claims'[c].calls = <<>>
               /\ potential_winners_left' = potential_winners_left + 1
               /\ UNCHANGED <<winner_count, winners>>]_vars

\* A claim ended at the approval stage, one of its answers undeserializable
\* or failed.
C13_Witness ==
    \E c \in Claims :
        claims[c].appr = "fail" /\ claims[c].outcome = "approval_failed"

\* C14: call i of an issued approval, transfer or burn round goes to the
\* registry of challenge nft i and carries the token id the ownership
\* answer of that same index i gave.
C14_CallsAlignedWithItems ==
    \A c \in Claims :
        claims[c].stage \in {"approval", "transfer", "burn"}
            => /\ DOMAIN claims[c].calls = Indices
               /\ \A i \in Indices :
                    /\ claims[c].calls[i].registry = challenge_nft_ids[i]
                    /\ claims[c].calls[i].arg = claims[c].captured[i]

\* Burn calls are out for a challenge of two nfts.
C14_Witness ==
    \E c \in Claims :
        /\ claims[c].stage = "burn"
        /\ Len(claims[c].calls) = 2
        /\ claims[c].calls[2].method = "nft_batch_burn"

\* C15: on_burn_nfts with every burn successful inserts the claimant into
\* winners, adds one to winner_count, leaves potential_winners_left alone
\* and returns true; with a failed burn it adds one to
\* potential_winners_left, leaves winner_count and winners alone and
\* returns false.
C15_BurnFanIn ==
    [][\A c \in Claims :
        (claims[c].stage = "burn" /\ claims'[c].stage # "burn")
            => IF claims'[c].burn = "ok"
               THEN /\ claims'[c].outcome = "committed"
                    /\ claims[c].who \in DOMAIN winners'
                    /\ \A a \in DOMAIN winners : a \in DOMAIN winners'
                    /\ winner_count' = winner_count + 1
                    /\ UNCHANGED potential_winners_left
               ELSE /\ claims'[c].outcome = "burn_failed"
                    /\ potential_winners_left' = potential_winners_left + 1
                    /\ UNCHANGED <<winner_count, winners>>]_vars

\* One claim went through on_burn_nfts with every burn successful, another
\* one with a failed burn.
C15_Witness ==
    \E c, d \in Claims :
        /\ claims[c].burn = "ok" /\ claims[c].outcome = "committed"
        /\ claims[d].burn = "fail" /\ claims[d].outcome = "burn_failed"

\* C16: a claim with a failed transfer answer is never committed.
C16_FailedTransferFails ==
    \A c \in Claims : claims[c].xfer = "fail" => ~Committed(c)

\* C17: the number of accounts in winners is winner_count in every state.
C17_WinnersMatchCount == Cardinality(DOMAIN winners) = winner_count

\* The number of claims in flight.
Reserved == Cardinality({c \in Claims : InFlight(c)})

\* C18: a slot is released only for a claim that holds one and only once:
\* potential_winners_left, winner_count and the claims in flight never add
\* up to more than winner_limit, so potential_winners_left never exceeds
\* winner_limit.
C18_ReleaseOnlyReserved ==
    /\ potential_winners_left + winner_count + Reserved <= winner_limit
    /\ potential_winners_left <= winner_limit

\* A claim was released with a second one in flight and a slot left.
C18_Witness ==
    \E c, d \in Claims :
        /\ claims[c].outcome \in {"not_owned", "approval_failed", "burn_failed"}
        /\ InFlight(d)
        /\ potential_winners_left = 1

\* C19: an initiate_claim call that finds potential_winners_left = 0 is
\* rejected with "Challenge currently at max potential winners" and the
\* counter stays 0; the counter never goes below 0.
C19_NoReservationAtZero ==
    [][/\ \A c \in Claims :
            (Submitted(c) /\ potential_winners_left = 0)
                => /\ claims'[c].outcome = R_SLOTS
                   /\ potential_winners_left' = 0
       /\ potential_winners_left' >= 0]_vars

\* A call was rejected for want of a slot while a claim of a challenge with
\* a positive limit is in flight.
C19_Witness ==
    \E c, d \in Claims :
        /\ claims[c].outcome = R_SLOTS
        /\ InFlight(d)
        /\ winner_count < winner_limit
        /\ potential_winners_left = 0

\* C20: challenge_completed, once true, is true in every later state.
C20_CompletedMonotone ==
    [][challenge_completed => challenge_completed']_vars

\* C20 amended: challenge_completed goes back to false only when the
\* creator can update the status, in a step that changes nothing else; no
\* claim step, expiry check or passing of time resets it.
C20_OnlyOwnerResets ==
    [][(challenge_completed /\ ~challenge_completed')
          => (creator_can_update /\ UNCHANGED <<config, txs, counters, now, claims>>)]_vars

\* The expiry check completed a challenge its creator cannot update, and a
\* later claim found it completed.
C20_Witness ==
    /\ challenge_completed
    /\ ~creator_can_update
    /\ \E c \in Claims : claims[c].outcome = R_OVER

\* The step is the commit of claim c.
Commits(c) == InFlight(c) /\ claims'[c].outcome = "committed"

\* C21: winner_count never decreases; a step that changes winner_count or
\* winners is the commit of one claim, in on_claim or on_burn_nfts: it adds
\* exactly 1 to winner_count and has that claim's claimant in winners.
C21_CountOnlyByCommit ==
    [][/\ winner_count' >= winner_count
       /\ (winner_count' # winner_count \/ winners' # winners)
            => /\ winner_count' = winner_count + 1
               /\ \E c \in Claims :
                    /\ claims[c].stage \in {"ownership", "burn"}
                    /\ Commits(c)
                    /\ claims[c].who \in DOMAIN winners']_vars

\* Two accounts were committed, one after the other.
C21_Witness ==
    /\ winner_count = 2
    /\ DOMAIN winners = {1, 2}

\* The step is the call recorded as t.
TxSubmitted(t) == txs[t].stage = "none" /\ txs'[t].stage # "none"

\* C22: a call of update_challenge_completion_status by the owner of a
\* challenge with creator_can_update sets challenge_completed to its
\* argument; a call by any other account, or with creator_can_update
\* false, is rejected and leaves challenge_completed and the counters as
\* they were.
C22_OnlyOwnerUpdates ==
    [][\A t \in Txs :
        (TxSubmitted(t)
           /\ txs'[t].method = "update_challenge_completion_status")
          => IF txs'[t].who = owner_id /\ creator_can_update
             THEN /\ txs'[t].outcome = "ok"
                  /\ challenge_completed' = txs'[t].flag
                  /\ UNCHANGED counters
             ELSE /\ txs'[t].outcome \in {P_OWNER, P_UPDATE}
                  /\ UNCHANGED <<challenge_completed, counters>>]_vars

\* The owner's call was accepted, another account's call was rejected.
C22_Witness ==
    \E t, u \in Txs :
        /\ txs[t].method = "update_challenge_completion_status"
        /\ txs[t].outcome = "ok"
        /\ txs[u].method = "update_challenge_completion_status"
        /\ txs[u].outcome = P_OWNER

\* C23: mint_nft is accepted exactly when its caller is in winners and at
\* least MintFee millinear are attached; the call, accepted or rejected,
\* and its callback, failing or not, leave winner_count,
\* potential_winners_left, winners and challenge_completed as they were.
C23_MintTouchesNothing ==
    [][\A t \in Txs :
        /\ (TxSubmitted(t) /\ txs'[t].method = "mint_nft")
             => /\ (txs'[t].stage = "minting")
                      <=> (txs'[t].who \in DOMAIN winners
                             /\ txs'[t].arg >= MintFee)
                /\ UNCHANGED <<counters, challenge_completed>>
        /\ (txs[t].stage = "minting" /\ txs'[t].stage = "done")
             => UNCHANGED <<counters, challenge_completed>>]_vars

\* A winner's mint failed in its callback, and a mint of an account that
\* has not won was rejected.
C23_Witness ==
    \E t, u \in Txs :
        /\ txs[t].outcome = P_MINT_ERROR
        /\ txs[u].outcome = P_MINT_WINNER

\* C24: an on_claim that finds an item not owned logs exactly one index,
\* the lowest index whose item the claimant does not hold.
C24_LogsLowestMissingIndex ==
    [][\A c \in Claims :
        (OwnershipFanIn(c) /\ claims'[c].own = "fail")
            => /\ Len(claims'[c].log) = 1
               /\ claims'[c].log = claims'[c].missing]_vars

\* C25: no callback of a claim ends with an index out of range.
C25_NoFatalAbort ==
    \A c \in Claims : claims[c].outcome # A_INDEX

\* C27: every step that adds to winner_count starts with
\* challenge_completed false.
C27_NoCommitWhileCompleted ==
    [][winner_count' > winner_count => ~challenge_completed]_vars

\* C27 amended: a slot is reserved only in a step that starts with
\* challenge_completed false; a claim in flight when the challenge is
\* completed still runs to its end.
C27_NoReservationWhileCompleted ==
    [][\A c \in Claims :
        (Submitted(c) /\ InFlight(c)') => ~challenge_completed]_vars

\* A claim is in flight in a completed challenge.
C27_Witness ==
    /\ challenge_completed
    /\ \E c \in Claims : InFlight(c)

\* C28: on a challenge not yet completed, is_challenge_expired() is true
\* exactly when ensure_challenge_not_expired() is.
C28_ExpiryViewsAgree ==
    ~challenge_completed
        => (is_challenge_expired <=> ensure_challenge_not_expired)

\* C29: an initiate_claim call made after the block timestamp has passed
\* expiration_date_in_ns is rejected and reserves nothing, whatever
\* challenge_completed is.
C29_NoReservationAfterExpiry ==
    [][\A c \in Claims :
        (Submitted(c) /\ now > expiration_date_in_ns)
            => /\ claims'[c].outcome \in RejectReasons
               /\ ~InFlight(c)'
               /\ UNCHANGED counters]_vars

\* A call was rejected as over, the owner set challenge_completed back to
\* false, and a later call was rejected as expired.
C29_Witness ==
    \E c, d \in Claims :
        /\ c < d
        /\ claims[c].outcome = R_OVER
        /\ claims[d].outcome = R_EXPIRED

\* C30: winner_count >= winner_limit implies potential_winners_left = 0,
\* and no initiate_claim call is rejected with "Challenge is not accepting
\* any more winners".
C30_LimitReasonNeverReported ==
    /\ winner_count >= winner_limit => potential_winners_left = 0
    /\ \A c \in Claims : claims[c].outcome # R_LIMIT

\* The limit of 2 is reached and a later call was rejected for want of a
\* slot.
C30_Witness ==
    /\ winner_limit = 2
    /\ winner_count = 2
    /\ \E c \in Claims : claims[c].outcome = R_SLOTS

\* The callback claim c waits for.
Callback(c) ==
    on_claim(c) \/ on_approval_check(c) \/ burn_nfts(c) \/ on_burn_nfts(c)

\* C26: a claim that reserved a slot and is in flight has its next callback
\* ready to run, and a claim that reserved a slot and is in flight no more
\* was committed or had its reservation released (the registries
\* answering with numeric token ids).
C26_EveryClaimSettles ==
    \A c \in Claims :
        /\ InFlight(c) => ENABLED Callback(c)
        /\ (/\ claims[c].stage = "done"
            /\ claims[c].outcome \notin RejectReasons \cup {A_PARSE})
              => claims[c].outcome \in
                    {"committed", "not_owned", "approval_failed", "burn_failed"}

\* C31: an initiate_claim call is rejected with the first violation in the
\* order slots exhausted, limit reached, completed, expired, already a
\* winner, whatever later violations hold too; with none it reserves a slot.
C31_FirstViolationReported ==
    [][\A c \in Claims :
        Submitted(c)
          => IF potential_winners_left = 0
                THEN claims'[c].outcome = R_SLOTS
             ELSE IF winner_count >= winner_limit
                THEN claims'[c].outcome = R_LIMIT
             ELSE IF challenge_completed
                THEN claims'[c].outcome = R_OVER
             ELSE IF now > expiration_date_in_ns
                THEN claims'[c].outcome = R_EXPIRED
             ELSE IF claims'[c].who \in DOMAIN winners
                THEN claims'[c].outcome = R_WON
             ELSE InFlight(c)']_vars

\* An account won, was told so on its second call, and on its third call,
\* the challenge completed by the expiration check and expired as well, was
\* told that the challenge is over.
C31_Witness ==
    /\ ~creator_can_update
    /\ Committed(1)
    /\ claims[2].who = claims[1].who /\ claims[2].outcome = R_WON
    /\ claims[3].who = claims[1].who /\ claims[3].outcome = R_OVER
====
